---- MODULE Spec2Model ----
(***************************************************************************)
(* A model of the kleenexp semantic compiler (re2/compiler.py) and of the  *)
(* assembler contract exercised by tests/test_asm.py.                      *)
(*                                                                         *)
(* Python values are represented as follows.                               *)
(*   - a str is a sequence of one-character strings ("ab" is <<"a","b">>); *)
(*     macro names, which are only used as dict keys, are TLA+ strings;    *)
(*   - None, where an int may stand (Multiple.min, Multiple.max), is -1;   *)
(*     None, where a str may stand (Capture.name), is the empty sequence;  *)
(*   - an object is a record with a "type" field holding its class;        *)
(*   - a dict is a function whose DOMAIN is the set of its keys;           *)
(*   - an item of CharacterClass.characters is <<c>> for the character c   *)
(*     and <<a, b>> for the range tuple (a, b).                            *)
(* The code is Python 2: filter returns a list, so compile_concat can walk *)
(* defs twice and take len(compiled).                                      *)
(* The compiler is recursive; the model runs it as a stack machine, one    *)
(* frame per active compile_ast call, so that the macro environment is     *)
(* observable between the steps of compile_concat.                         *)
(***************************************************************************)
EXTENDS Integers, Sequences, FiniteSets, TLC

VARIABLES
    builtin_macros,  \* the module-level dict builtin_macros
    loaded,          \* number of module-level add_builtin_macro calls completed
    ast,             \* per thread: the argument of the running call
    env_ref,         \* per thread: the dict object the parameter `macros` refers to
    macros,          \* per thread: the dict created by compile (dict(builtin_macros))
    stack,           \* per thread: the active compile_ast calls, innermost last
    ret,             \* per thread: the value returned by the compile_ast call that just ended
    outcome,         \* per thread: how the call ended (returned value or raised error)
    last,            \* per thread: record of the handler call that ended last
    asm_in,          \* the IR handed to assemble
    asm_out          \* the string assemble returned

vars == <<builtin_macros, loaded, ast, env_ref, macros, stack, ret, outcome, last,
          asm_in, asm_out>>

---------------------------------------------------------------------------
(* Bounds of the model *)

\* longest item list of a generated Either or Concat
MaxItems == 2
\* longest generated operator name, in characters
MaxNameLen == 3
\* number of threads calling compile concurrently in SpecConc
NumCallers == 2
\* largest repetition count handed to assemble
MaxCount == 2

None == -1

---------------------------------------------------------------------------
(* parser AST nodes (re2.parser) *)

Literal(string) == [type |-> "Literal", string |-> string]

Concat(items) == [type |-> "Concat", items |-> items]

Either(items) == [type |-> "Either", items |-> items]

Def(name, subregex) == [type |-> "Def", name |-> name, subregex |-> subregex]

Operator(name, subregex) == [type |-> "Operator", name |-> name, subregex |-> subregex]

Macro(name) == [type |-> "Macro", name |-> name]

Range(start, end) == [type |-> "Range", start |-> start, end |-> end]

Nothing == [type |-> "Nothing"]

(* asm IR nodes (re2.asm) *)

asm_Literal(string) == [type |-> "asm.Literal", string |-> string]

asm_Concat(items) == [type |-> "asm.Concat", items |-> items]

asm_Either(items) == [type |-> "asm.Either", items |-> items]

asm_Multiple(min, max, is_greedy, sub) ==
    [type |-> "asm.Multiple", min |-> min, max |-> max, is_greedy |-> is_greedy, sub |-> sub]

asm_CharacterClass(characters, inverted) ==
    [type |-> "asm.CharacterClass", characters |-> characters, inverted |-> inverted]

asm_Capture(name, sub) == [type |-> "asm.Capture", name |-> name, sub |-> sub]

asm_Setting(setting, sub) == [type |-> "asm.Setting", setting |-> setting, sub |-> sub]

asm_Boundary(character, reverse) ==
    [type |-> "asm.Boundary", character |-> character, reverse |-> reverse]

asm_ANY == [type |-> "asm.Any"]

asm_LINEFEED == asm_CharacterClass(<< <<"\\n">> >>, FALSE)
asm_CARRIAGE_RETURN == asm_CharacterClass(<< <<"\\r">> >>, FALSE)
asm_TAB == asm_CharacterClass(<< <<"\\t">> >>, FALSE)
asm_DIGIT == asm_CharacterClass(<< <<"\\d">> >>, FALSE)
asm_LETTER == asm_CharacterClass(<< <<"a", "z">>, <<"A", "Z">> >>, FALSE)
asm_LOWERCASE == asm_CharacterClass(<< <<"a", "z">> >>, FALSE)
asm_UPPERCASE == asm_CharacterClass(<< <<"A", "Z">> >>, FALSE)
asm_SPACE == asm_CharacterClass(<< <<"\\s">> >>, FALSE)
asm_TOKEN_CHARACTER == asm_CharacterClass(<< <<"\\w">> >>, FALSE)
asm_START_STRING == asm_Boundary("\\A", "")
asm_END_STRING == asm_Boundary("\\Z", "")
asm_START_LINE == asm_Boundary("^", "")
asm_END_LINE == asm_Boundary("$", "")
asm_WORD_BOUNDARY == asm_Boundary("\\b", "\\B")

EMPTY == asm_Literal(<<>>)

EMPTY_CONCAT == asm_Concat(<<>>)

\* what a raise statement leaves: the class of the exception
Error(kind) == [type |-> "Error", kind |-> kind]

IsError(v) == v.type = "Error"

\* expr.invert(): defined by CharacterClass and Boundary only; a class without
\* the method raises AttributeError
invert(expr) ==
    CASE expr.type = "asm.CharacterClass" ->
            asm_CharacterClass(expr.characters, ~expr.inverted)
      [] expr.type = "asm.Boundary" /\ expr.reverse # "" ->
            asm_Boundary(expr.reverse, expr.character)
      [] expr.type = "asm.Boundary" /\ expr.reverse = "" ->
            Error("CompileError")
      [] OTHER -> Error("AttributeError")

---------------------------------------------------------------------------
(* dict operations *)

\* d[k] = v
Put(d, k, v) == [n \in DOMAIN d \cup {k} |-> IF n = k THEN v ELSE d[n]]

\* del d[k]
Del(d, k) == [n \in DOMAIN d \ {k} |-> d[n]]

\* the dict display { k1: v1, k2: v2, ... } given as a sequence of <<k, v>>
DictOf(pairs) ==
    [n \in {pairs[i][1] : i \in DOMAIN pairs} |->
        pairs[CHOOSE i \in DOMAIN pairs :
                /\ pairs[i][1] = n
                /\ \A j \in DOMAIN pairs : pairs[j][1] = n => j <= i][2]]

---------------------------------------------------------------------------
(* The builtin macro table as the module body builds it *)

builtin_macros_display ==
    DictOf(<< <<"#any", asm_ANY>>,
              <<"#linefeed", asm_LINEFEED>>,
              <<"#carriage_return", asm_CARRIAGE_RETURN>>,
              <<"#windows_newline", asm_Literal(<<"\\r", "\\n">>)>>,
              <<"#tab", asm_TAB>>,
              <<"#digit", asm_DIGIT>>,
              <<"#letter", asm_LETTER>>,
              <<"#lowercase", asm_LOWERCASE>>,
              <<"#uppercase", asm_UPPERCASE>>,
              <<"#space", asm_SPACE>>,
              <<"#token_character", asm_TOKEN_CHARACTER>>,
              <<"#start_string", asm_START_STRING>>,
              <<"#end_string", asm_END_STRING>>,
              <<"#start_line", asm_START_LINE>>,
              <<"#end_line", asm_END_LINE>>,
              <<"#word_boundary", asm_WORD_BOUNDARY>>,
              <<"#quote", asm_Literal(<<"'">>)>>,
              <<"#double_quote", asm_Literal(<<"\"">>)>>,
              <<"#left_brace", asm_Literal(<<"[">>)>>,
              <<"#right_brace", asm_Literal(<<"]">>)>> >>)

invertible_names ==
    << "linefeed", "carriage_return", "tab", "digit", "letter", "lowercase",
       "uppercase", "space", "token_character", "word_boundary" >>

invertible_aliases ==
    << <<"linefeed", "lf">>, <<"carriage_return", "cr">>, <<"tab", "t">>,
       <<"digit", "d">>, <<"letter", "l">>, <<"lowercase", "lc">>,
       <<"uppercase", "uc">>, <<"space", "s">>, <<"token_character", "tc">>,
       <<"word_boundary", "wb">> >>

plain_aliases ==
    << <<"any", "a">>, <<"windows_newline", "crlf">>, <<"start_string", "ss">>,
       <<"end_string", "es">>, <<"start_line", "sl">>, <<"end_line", "el">>,
       <<"quote", "q">>, <<"double_quote", "dq">>, <<"left_brace", "lb">>,
       <<"right_brace", "rb">> >>

\* for name in '...'.split(): builtin_macros['#not_' + name] = macro.invert()
RECURSIVE add_not_macros(_, _)
add_not_macros(d, names) ==
    IF names = <<>> THEN d
    ELSE add_not_macros(Put(d, "#not_" \o Head(names), invert(d["#" \o Head(names)])),
                        Tail(names))

\* the loop that aliases '#' + short and '#n' + short
RECURSIVE add_invertible_aliases(_, _)
add_invertible_aliases(d, names) ==
    IF names = <<>> THEN d
    ELSE LET long == Head(names)[1]
             short == Head(names)[2]
             d1 == Put(d, "#" \o short, d["#" \o long])
             d2 == Put(d1, "#n" \o short, d1["#not_" \o long])
         IN  add_invertible_aliases(d2, Tail(names))

\* the loop that aliases '#' + short only
RECURSIVE add_plain_aliases(_, _)
add_plain_aliases(d, names) ==
    IF names = <<>> THEN d
    ELSE LET long == Head(names)[1]
             short == Head(names)[2]
         IN  add_plain_aliases(Put(d, "#" \o short, d["#" \o long]), Tail(names))

\* builtin_macros when control reaches the first add_builtin_macro call
builtin_macros_initial ==
    add_plain_aliases(
        add_invertible_aliases(
            add_not_macros(builtin_macros_display, invertible_names),
            invertible_aliases),
        plain_aliases)

\* parser.parse of the four definitions registered at the end of the module
parse_integer ==
    Concat(<< Operator(<<"0", "-", "1">>, Literal(<<"-">>)),
              Operator(<<"1", "+">>, Macro("#digit")) >>)

parse_unsigned_integer == Operator(<<"1", "+">>, Macro("#digit"))

parse_real ==
    Concat(<< Macro("#int"),
              Operator(<<"0", "-", "1">>, Concat(<< Literal(<<".">>), Macro("#uint") >>)) >>)

parse_float ==
    Concat(<<
        Operator(<<"0", "-", "1">>, Literal(<<"-">>)),
        Either(<<
            Concat(<<
                Either(<<
                    Concat(<< Macro("#uint"), Literal(<<".">>),
                              Operator(<<"0", "-", "1">>, Macro("#uint")) >>),
                    Concat(<< Literal(<<".">>), Macro("#uint") >>) >>),
                Operator(<<"0", "-", "1">>, Macro("#exponent")) >>),
            Concat(<< Macro("#int"), Macro("#exponent") >>) >>),
        Def("#exponent",
            Concat(<<
                Either(<< Literal(<<"e">>), Literal(<<"E">>) >>),
                Operator(<<"0", "-", "1">>,
                         Either(<< Literal(<<"+">>), Literal(<<"-">>) >>)),
                Macro("#uint") >>)) >>)

\* the add_builtin_macro calls of the module body, in order; short = "" is None
builtin_definitions ==
    << [long |-> "#integer", short |-> "#int", definition |-> parse_integer],
       [long |-> "#unsigned_integer", short |-> "#uint",
        definition |-> parse_unsigned_integer],
       [long |-> "#real", short |-> "", definition |-> parse_real],
       [long |-> "#float", short |-> "", definition |-> parse_float] >>

---------------------------------------------------------------------------
(* Characters *)

lowercase_letters ==
    << "a", "b", "c", "d", "e", "f", "g", "h", "i", "j", "k", "l", "m",
       "n", "o", "p", "q", "r", "s", "t", "u", "v", "w", "x", "y", "z" >>

uppercase_letters ==
    << "A", "B", "C", "D", "E", "F", "G", "H", "I", "J", "K", "L", "M",
       "N", "O", "P", "Q", "R", "S", "T", "U", "V", "W", "X", "Y", "Z" >>

decimal_digits == << "0", "1", "2", "3", "4", "5", "6", "7", "8", "9" >>

Elements(seq) == {seq[i] : i \in DOMAIN seq}

IndexIn(seq, c) == CHOOSE i \in DOMAIN seq : seq[i] = c

islower(char) == char \in Elements(lowercase_letters)

isupper(char) == char \in Elements(uppercase_letters)

isdigit(char) == char \in Elements(decimal_digits)

\* the code point of a character; str comparison of one-character strings
\* compares code points
ord(char) ==
    CASE islower(char) -> 96 + IndexIn(lowercase_letters, char)
      [] isupper(char) -> 64 + IndexIn(uppercase_letters, char)
      [] isdigit(char) -> 47 + IndexIn(decimal_digits, char)
      [] char = "+" -> 43
      [] char = "-" -> 45
      [] char = "." -> 46
      [] char = "_" -> 95

\* int(s) for a str of decimal digits
RECURSIVE int(_)
int(s) ==
    IF s = <<>> THEN 0
    ELSE 10 * int(SubSeq(s, 1, Len(s) - 1)) + (ord(s[Len(s)]) - 48)

---------------------------------------------------------------------------
(* The pure parts of the handlers *)

is_not_empty(node) == node # EMPTY /\ node # EMPTY_CONCAT

\* faulty variant: the length test of the Literal case left out
is_single_char_any_literal(c) ==
    c.type = "asm.Literal" \/ c.type = "asm.CharacterClass"

is_single_char(c) ==
    \/ (c.type = "asm.Literal" /\ Len(c.string) = 1)
    \/ c.type = "asm.CharacterClass"

\* the character list compile_either collects from the compiled branches
RECURSIVE either_characters(_)
either_characters(compiled) ==
    IF compiled = <<>> THEN <<>>
    ELSE LET c == Head(compiled)
             own == IF c.type = "asm.Literal" /\ Len(c.string) = 1 THEN << c.string >>
                    ELSE IF c.type = "asm.CharacterClass" THEN c.characters
                    ELSE <<>>
         IN  own \o either_characters(Tail(compiled))

\* compile_either once every branch is compiled
fold_either(compiled) ==
    IF \A i \in DOMAIN compiled : is_single_char(compiled[i])
    THEN asm_CharacterClass(either_characters(compiled), FALSE)
    ELSE asm_Either(compiled)

invert_operator(expr) ==
    IF expr.type = "asm.Literal" /\ Len(expr.string) = 1
    THEN asm_CharacterClass(<< expr.string >>, TRUE)
    ELSE IF invert(expr).type = "Error" THEN Error("CompileError") ELSE invert(expr)

builtin_operators ==
    {<<"c", "a", "p", "t", "u", "r", "e">>, <<"n", "o", "t">>}

apply_builtin_operator(name, s) ==
    IF name = <<"n", "o", "t">> THEN invert_operator(s) ELSE asm_Capture(<<>>, s)

\* the longest prefix of s that \d+ can take (empty when s does not start with a digit)
RECURSIVE digit_run(_)
digit_run(s) ==
    IF s # <<>> /\ isdigit(Head(s)) THEN << Head(s) >> \o digit_run(Tail(s)) ELSE <<>>

\* REPEAT_OPERATOR.match(name): re.match anchors at the start only. A group that
\* took no part in the match is None, given here as <<>> (a group that takes
\* part holds at least one digit).
REPEAT_OPERATOR_match(name) ==
    LET first == digit_run(name)
        rest == SubSeq(name, Len(first) + 1, Len(name))
        second == IF rest # <<>> /\ Head(rest) = "-" THEN digit_run(Tail(rest)) ELSE <<>>
    IN  IF first = <<>> THEN [matched |-> FALSE, groups |-> << <<>>, <<>>, <<>> >>]
        ELSE IF second # <<>>
             THEN [matched |-> TRUE, groups |-> << first, second, <<>> >>]
             ELSE [matched |-> TRUE, groups |-> << <<>>, <<>>, first >>]

\* compile_operator once the subexpression is compiled
apply_operator(name, sub) ==
    LET m == REPEAT_OPERATOR_match(name)
        min == m.groups[1]
        max == m.groups[2]
        min2 == m.groups[3]
    IN  IF m.matched
        THEN IF min2 # <<>>
             THEN asm_Multiple(int(min2), None, TRUE, sub)
             ELSE asm_Multiple(int(min), int(max), TRUE, sub)
        ELSE IF name \notin builtin_operators
             THEN Error("CompileError")
             ELSE apply_builtin_operator(name, sub)

\* "" stands for the AssertionError raised by the final assert
character_category(char) ==
    IF islower(char) THEN "LOWERCASE"
    ELSE IF isupper(char) THEN "UPPERCASE"
    ELSE IF isdigit(char) THEN "DIGIT"
    ELSE ""

range_class(start, end) ==
    IF character_category(start) = "" THEN Error("AssertionError")
    ELSE IF character_category(end) = "" THEN Error("AssertionError")
    ELSE IF character_category(start) # character_category(end) THEN Error("CompileError")
    ELSE IF ord(start) >= ord(end) THEN Error("CompileError")
    ELSE asm_CharacterClass(<< <<start, end>> >>, FALSE)

IsDef(x) == x.type = "Def"

IsNotDef(x) == x.type # "Def"

defs_of(items) == SelectSeq(items, IsDef)

regexes_of(items) == SelectSeq(items, IsNotDef)

\* faulty variant: the Def loop without its test
already_defined_never(d, env) == FALSE

\* the test guarding the raise in the Def loop
already_defined(d, env) == d.name \in DOMAIN env

\* faulty variant: the del loop left out
unbind_nothing(env, defs) == env

\* for d in defs: del macros[d.name]
RECURSIVE unbind(_, _)
unbind(env, defs) ==
    IF defs = <<>> THEN env ELSE unbind(Del(env, Head(defs).name), Tail(defs))

\* the tail of compile_concat: the value returned for the filtered list
concat_result(compiled) ==
    IF compiled = <<>> THEN EMPTY
    ELSE IF Len(compiled) = 1 THEN compiled[1]
    ELSE asm_Concat(compiled)

---------------------------------------------------------------------------
(* The compile_ast call stack of one thread.                                *)
(* A thread's local state L is [macros, stack, ret, outcome, last]: macros  *)
(* is the dict its parameter `macros` refers to. A frame is one active      *)
(* compile_ast call: its node, where it stands (stage "call": the handler   *)
(* has not started; "defs", "regexes", "items", "sub": it waits for the     *)
(* compile_ast call it made for item i), the list it has compiled so far,   *)
(* and the dict as it was when the call began (kept for the record in last).*)

NoRet == [type |-> "NoRet"]

NoLast == [fn |-> "none"]

Idle == [status |-> "idle"]

Running == [status |-> "running"]

Returned(value) == [status |-> "returned", value |-> value]

Raised(kind) == [status |-> "raised", value |-> Error(kind)]

Frame(node, env) ==
    [node |-> node, stage |-> "call", i |-> 0, compiled |-> <<>>, saved |-> env]

Top(L) == L.stack[Len(L.stack)]

\* the handler call that ended: which handler, on which node, with which
\* compiled children, the dict before and after, and what it returned or raised
Log(fn, f, env, value) ==
    [fn |-> fn, node |-> f.node, compiled |-> f.compiled,
     before |-> f.saved, after |-> env, value |-> value]

\* the running handler (frame f) calls compile_ast(child, macros)
Call(L, f, child) ==
    [L EXCEPT !.stack = Append(SubSeq(@, 1, Len(@) - 1) \o << f >>,
                               Frame(child, L.macros)),
              !.ret = NoRet]

\* the running handler (frame f) returns value
Return(L, fn, f, value) ==
    [L EXCEPT !.stack = SubSeq(@, 1, Len(@) - 1),
              !.ret = value,
              !.last = Log(fn, f, L.macros, value)]

\* the running handler (frame f) raises: every active call is abandoned, and
\* nothing restores the dict
Raise(L, fn, f, kind) ==
    [L EXCEPT !.stack = <<>>,
              !.ret = NoRet,
              !.outcome = Raised(kind),
              !.last = Log(fn, f, L.macros, Error(kind))]

\* a handler that makes no compile_ast call: value is what it returns or raises
Finish(L, fn, f, value) ==
    IF IsError(value) THEN Raise(L, fn, f, value.kind) ELSE Return(L, fn, f, value)

(* compile_concat *)

\* the end of compile_concat, after both loops
concat_finish(L, f) ==
    LET compiled == SelectSeq(f.compiled, is_not_empty)
        L1 == [L EXCEPT !.macros = unbind(@, defs_of(f.node.items))]
    IN  Return(L1, "compile_concat", f, concat_result(compiled))

\* the list comprehension over regexes, about to compile item j
concat_regexes(L, f, j) ==
    IF j <= Len(regexes_of(f.node.items))
    THEN Call(L, [f EXCEPT !.stage = "regexes", !.i = j], regexes_of(f.node.items)[j])
    ELSE concat_finish(L, f)

\* the loop over defs, about to handle Def i
concat_defs(L, f, i) ==
    IF i <= Len(defs_of(f.node.items))
    THEN IF already_defined(defs_of(f.node.items)[i], L.macros)
         THEN Raise(L, "compile_concat", f, "KeyError")
         ELSE Call(L, [f EXCEPT !.stage = "defs", !.i = i],
                   defs_of(f.node.items)[i].subregex)
    ELSE concat_regexes(L, f, 1)

\* faulty variant: the items compiled without the Def loop before them
concat_begin_without_defs(L, f) == concat_regexes(L, f, 1)

\* compile_concat starts: the Defs come first
concat_begin(L, f) == concat_defs(L, f, 1)

concat_step(L) ==
    LET f == Top(L)
    IN  CASE f.stage = "call" -> concat_begin(L, f)
          [] f.stage = "defs" ->
                concat_defs([L EXCEPT !.macros =
                                Put(@, defs_of(f.node.items)[f.i].name, L.ret)],
                            f, f.i + 1)
          [] f.stage = "regexes" ->
                concat_regexes(L, [f EXCEPT !.compiled = Append(@, L.ret)], f.i + 1)

(* compile_either *)

either_items(L, f, j) ==
    IF j <= Len(f.node.items)
    THEN Call(L, [f EXCEPT !.stage = "items", !.i = j], f.node.items[j])
    ELSE Return(L, "compile_either", f, fold_either(f.compiled))

either_step(L) ==
    LET f == Top(L)
    IN  CASE f.stage = "call" -> either_items(L, f, 1)
          [] f.stage = "items" ->
                either_items(L, [f EXCEPT !.compiled = Append(@, L.ret)], f.i + 1)

(* compile_operator *)

operator_step(L) ==
    LET f == Top(L)
    IN  CASE f.stage = "call" -> Call(L, [f EXCEPT !.stage = "sub"], f.node.subregex)
          [] f.stage = "sub" ->
                Finish(L, "compile_operator", [f EXCEPT !.compiled = << L.ret >>],
                       apply_operator(f.node.name, L.ret))

(* compile_macro, compile_range, def_error and the two lambdas *)

macro_step(L) ==
    LET f == Top(L)
    IN  IF f.node.name \notin DOMAIN L.macros
        THEN Raise(L, "compile_macro", f, "CompileError")
        ELSE Return(L, "compile_macro", f, L.macros[f.node.name])

range_step(L) ==
    Finish(L, "compile_range", Top(L), range_class(Top(L).node.start, Top(L).node.end))

def_step(L) == Raise(L, "def_error", Top(L), "ValueError")

literal_step(L) == Return(L, "Literal", Top(L), asm_Literal(Top(L).node.string))

nothing_step(L) == Return(L, "Nothing", Top(L), EMPTY)

\* converters[type(ast)]
converters(L) ==
    CASE Top(L).node.type = "Concat" -> concat_step(L)
      [] Top(L).node.type = "Either" -> either_step(L)
      [] Top(L).node.type = "Def" -> def_step(L)
      [] Top(L).node.type = "Operator" -> operator_step(L)
      [] Top(L).node.type = "Macro" -> macro_step(L)
      [] Top(L).node.type = "Range" -> range_step(L)
      [] Top(L).node.type = "Literal" -> literal_step(L)
      [] Top(L).node.type = "Nothing" -> nothing_step(L)

\* compile(ast) from its first line to its return or raise, run by itself on
\* the dict env
RECURSIVE run(_)
run(L) ==
    IF L.stack = <<>>
    THEN IF L.outcome.status = "running"
         THEN Returned(asm_Setting(<<"m", "s">>, L.ret))
         ELSE L.outcome
    ELSE run(converters(L))

compile_alone(a, env) ==
    run([macros |-> env, stack |-> << Frame(a, env) >>, ret |-> NoRet,
         outcome |-> Running, last |-> NoLast])

---------------------------------------------------------------------------
(* The assembler (re2.asm): assemble(ir), a str given as a TLA+ string *)

alphanumeric(c) == islower(c) \/ isupper(c) \/ isdigit(c)

\* one character of a Literal, escaped when it is not alphanumeric
escape_char(c) == IF alphanumeric(c) THEN c ELSE "\\" \o c

RECURSIVE escape(_)
escape(string) ==
    IF string = <<>> THEN "" ELSE escape_char(Head(string)) \o escape(Tail(string))

\* one item of a character class: a character, a class escape such as \d, or a range
class_item(item) ==
    IF Len(item) = 2 THEN item[1] \o "-" \o item[2]
    ELSE IF Len(item[1]) > 1 \/ alphanumeric(item[1]) THEN item[1]
    ELSE "\\" \o item[1]

RECURSIVE class_items(_)
class_items(characters) ==
    IF characters = <<>> THEN ""
    ELSE class_item(Head(characters)) \o class_items(Tail(characters))

\* faulty variant: the lazy mark left out
quantifier_always_greedy(min, max, is_greedy) ==
    LET lo == IF min = None THEN 0 ELSE min
    IN  IF max = None
        THEN IF lo = 0 THEN "*"
             ELSE IF lo = 1 THEN "+"
             ELSE "{" \o ToString(lo) \o ",}"
        ELSE IF lo = 0 /\ max = 1 THEN "?"
             ELSE IF lo = max THEN "{" \o ToString(lo) \o "}"
             ELSE IF lo = 0 THEN "{," \o ToString(max) \o "}"
             ELSE "{" \o ToString(lo) \o "," \o ToString(max) \o "}"

\* min and max with None read as 0 and as unbounded
quantifier(min, max, is_greedy) ==
    LET lo == IF min = None THEN 0 ELSE min
        op == IF max = None
              THEN IF lo = 0 THEN "*"
                   ELSE IF lo = 1 THEN "+"
                   ELSE "{" \o ToString(lo) \o ",}"
              ELSE IF lo = 0 /\ max = 1 THEN "?"
                   ELSE IF lo = max THEN "{" \o ToString(lo) \o "}"
                   ELSE IF lo = 0 THEN "{," \o ToString(max) \o "}"
                   ELSE "{" \o ToString(lo) \o "," \o ToString(max) \o "}"
    IN  IF is_greedy THEN op ELSE op \o "?"

\* a node that is one unit for a quantifier whatever it renders to
atomic(ir) ==
    \/ ir.type = "asm.Literal" /\ Len(ir.string) = 1
    \/ ir.type \in {"asm.CharacterClass", "asm.Capture", "asm.Any", "asm.Boundary"}

maybe_wrap(should_wrap, regex) ==
    IF should_wrap THEN "(?:" \o regex \o ")" ELSE regex

RECURSIVE to_regex(_, _)
RECURSIVE join_regex(_, _, _)

\* the items of a Concat (separator "", an Either item grouped) or of an
\* Either (separator "|")
join_regex(items, separator, group_either) ==
    IF items = <<>> THEN ""
    ELSE LET head == IF group_either /\ Head(items).type = "asm.Either"
                     THEN maybe_wrap(TRUE, to_regex(Head(items), FALSE))
                     ELSE to_regex(Head(items), FALSE)
         IN  IF Len(items) = 1 THEN head
             ELSE head \o separator \o join_regex(Tail(items), separator, group_either)

\* the text of ir; with wrap, grouped so that a quantifier applies to all of it
to_regex(ir, wrap) ==
    CASE ir.type = "asm.Literal" ->
            maybe_wrap(wrap /\ Len(ir.string) > 1, escape(ir.string))
      [] ir.type = "asm.Concat" ->
            LET r == join_regex(ir.items, "", TRUE) IN maybe_wrap(wrap /\ Len(r) > 1, r)
      [] ir.type = "asm.Either" ->
            LET r == join_regex(ir.items, "|", FALSE) IN maybe_wrap(wrap /\ Len(r) > 1, r)
      [] ir.type = "asm.Multiple" ->
            maybe_wrap(wrap, to_regex(ir.sub, TRUE)
                             \o quantifier(ir.min, ir.max, ir.is_greedy))
      [] ir.type = "asm.CharacterClass" ->
            IF ~ir.inverted /\ Len(ir.characters) = 1 /\ Len(ir.characters[1]) = 1
            THEN class_item(ir.characters[1])
            ELSE "[" \o (IF ir.inverted THEN "^" ELSE "")
                     \o class_items(ir.characters) \o "]"
      [] ir.type = "asm.Capture" ->
            IF ir.name = <<>> THEN "(" \o to_regex(ir.sub, FALSE) \o ")"
            ELSE "(?P<" \o ir.name[1] \o ">" \o to_regex(ir.sub, FALSE) \o ")"
      [] ir.type = "asm.Setting" ->
            "(?" \o ir.setting[1] \o ")" \o to_regex(ir.sub, wrap)
      [] ir.type = "asm.Boundary" -> ir.character
      [] ir.type = "asm.Any" -> "."

assemble(ir) == to_regex(ir, FALSE)

---------------------------------------------------------------------------
(* Inputs *)

SeqsUpTo(S, n) == UNION {[1..k -> S] : k \in 0..n}

NOT == <<"n", "o", "t">>

CAPTURE == <<"c", "a", "p", "t", "u", "r", "e">>

\* operator names: every string of 1..MaxNameLen of these characters, and the
\* two builtin names
OperatorNames ==
    (SeqsUpTo({"2", "5", "-", "+", "x"}, MaxNameLen) \ {<<>>}) \cup {NOT, CAPTURE}

RangeEnds == {"a", "c", "C", "E", "3", "5", "-"}

EitherBranches ==
    { Literal(<<"a">>), Literal(<<"b">>), Literal(<<"a", "b">>), Literal(<<>>),
      Macro("#digit"), Macro("#nd"), Macro("#y"),
      Operator(NOT, Literal(<<"c">>)), Range("a", "c"),
      Either(<< Literal(<<"a">>), Literal(<<"b">>) >>),
      Def("#x", Literal(<<"a">>)) }

ConcatItems ==
    { Literal(<<"a">>), Literal(<<"b">>), Literal(<<>>),
      Macro("#x"), Macro("#y"),
      Def("#x", Literal(<<"a">>)), Def("#x", Literal(<<"b">>)),
      Def("#y", Macro("#x")),
      Def("#digit", Literal(<<"a">>)), Def("#d", Literal(<<"a">>)) }

OperatorSubs ==
    { Literal(<<"a">>), Literal(<<"a", "b">>), Literal(<<>>), Nothing,
      Macro("#digit"), Macro("#nd"), Macro("#wb"), Macro("#sl"), Macro("#any"),
      Macro("#y"), Range("a", "c"),
      Either(<< Literal(<<"a">>), Literal(<<"a", "b">>) >>),
      Concat(<< Literal(<<"a">>), Literal(<<"b">>) >>),
      Operator(<<"2", "-", "5">>, Literal(<<"a">>)),
      Operator(<<"5", "-", "2">>, Literal(<<"a">>)),
      Operator(CAPTURE, Literal(<<"a">>)),
      Operator(NOT, Literal(<<"a">>)) }

FlatEithers == {Either(s) : s \in SeqsUpTo(EitherBranches, MaxItems)}

FlatConcats == {Concat(s) : s \in SeqsUpTo(ConcatItems, MaxItems)}

InnerConcats ==
    {Concat(s) :
        s \in SeqsUpTo({ Macro("#x"), Literal(<<"b">>), Def("#x", Literal(<<"a">>)),
                         Def("#y", Literal(<<"a">>)) }, MaxItems)}

\* a Concat inside a Concat, with a Def before it or a Macro after it
NestedConcats ==
    {Concat(pre \o << c >> \o post) :
        c \in InnerConcats,
        pre \in {<<>>, << Def("#x", Literal(<<"b">>)) >>},
        post \in {<<>>, << Macro("#x") >>, << Macro("#y") >>}}

Scopes ==
    { Concat(<< Def("#x", Literal(<<"a">>)), Macro("#x") >>),
      Concat(<< Macro("#x"), Def("#x", Literal(<<"b">>)) >>),
      Concat(<< Macro("#x") >>),
      Concat(<< Def("#y", Literal(<<"a">>)), Def("#x", Macro("#y")), Macro("#x") >>) }

\* sibling Concats, each with its own Defs
SiblingConcats == {Concat(<< c1, c2 >>) : c1 \in Scopes, c2 \in Scopes}

\* a Macro reference nested inside a non-Def item that stands before the Def
WrappedReferences ==
    {Concat(<< w, d >>) :
        w \in { Either(<< Macro("#x"), Literal(<<"b">>) >>),
                Either(<< Macro("#x"), Literal(<<"a", "b">>) >>),
                Operator(<<"2", "+">>, Macro("#x")),
                Operator(CAPTURE, Concat(<< Macro("#x"), Macro("#x") >>)),
                Operator(NOT, Macro("#x")) },
        d \in { Def("#x", Literal(<<"a">>)), Def("#x", Macro("#digit")),
                Def("#x", Literal(<<"a", "b">>)), Literal(<<"c">>) }}

Operators ==
    {Operator(n, Literal(<<"a">>)) : n \in OperatorNames}
    \cup {Operator(n, s) :
            n \in {NOT, CAPTURE, <<"2", "-", "5">>, <<"2", "+">>, <<"x">>},
            s \in OperatorSubs}

Ranges == {Range(s, e) : s \in RangeEnds, e \in RangeEnds}

Leaves ==
    { Literal(<<>>), Literal(<<"a">>), Literal(<<"a", "b">>), Nothing,
      Macro("#digit"), Macro("#float"), Macro("#exponent"), Macro("#x"),
      Def("#x", Literal(<<"a">>)) }

\* the arguments given to compile
ASTs ==
    Leaves \cup Ranges \cup Operators \cup FlatEithers \cup FlatConcats
        \cup NestedConcats \cup SiblingConcats \cup WrappedReferences

\* the arguments given to compile by the concurrent callers
ConcurrentASTs ==
    { Concat(<< Def("#x", Literal(<<"a">>)), Macro("#x") >>),
      Concat(<< Macro("#x"), Def("#x", Literal(<<"b">>)) >>),
      Macro("#x"),
      Concat(<< Def("#x", Range("a", "c")),
                Either(<< Nothing, Def("#y", Nothing) >>) >>),
      Operator(<<"1", "+">>, Macro("#x")) }

---------------------------------------------------------------------------
(* State *)

Module == 0

Callers == 1..NumCallers

Threads == {Module} \cup Callers

NoAst == [type |-> "NoAst"]

EmptyDict == [n \in {} |-> NoRet]

\* the dict a thread's parameter `macros` refers to
Env(t) == IF env_ref[t] = "builtin_macros" THEN builtin_macros ELSE macros[t]

Local(t) ==
    [macros |-> Env(t), stack |-> stack[t], ret |-> ret[t],
     outcome |-> outcome[t], last |-> last[t]]

Store(t, L) ==
    /\ IF env_ref[t] = "builtin_macros"
       THEN builtin_macros' = L.macros /\ UNCHANGED macros
       ELSE macros' = [macros EXCEPT ![t] = L.macros] /\ UNCHANGED builtin_macros
    /\ stack' = [stack EXCEPT ![t] = L.stack]
    /\ ret' = [ret EXCEPT ![t] = L.ret]
    /\ outcome' = [outcome EXCEPT ![t] = L.outcome]
    /\ last' = [last EXCEPT ![t] = L.last]
    /\ UNCHANGED <<loaded, ast, env_ref, asm_in, asm_out>>

At(t, type) == stack[t] # <<>> /\ stack[t][Len(stack[t])].node.type = type

ModuleLoaded == loaded = Len(builtin_definitions)

Init ==
    /\ builtin_macros = builtin_macros_initial
    /\ loaded = 0
    /\ ast = [t \in Threads |-> NoAst]
    /\ env_ref = [t \in Threads |-> "macros"]
    /\ macros = [t \in Threads |-> EmptyDict]
    /\ stack = [t \in Threads |-> <<>>]
    /\ ret = [t \in Threads |-> NoRet]
    /\ outcome = [t \in Threads |-> Idle]
    /\ last = [t \in Threads |-> NoLast]
    /\ asm_in = NoRet
    /\ asm_out = ""

---------------------------------------------------------------------------
(* Actions *)

\* add_builtin_macro up to its call compile_ast(parser.parse(definition), builtin_macros)
add_builtin_macro ==
    /\ ~ModuleLoaded
    /\ outcome[Module].status # "running"
    /\ LET definition == builtin_definitions[loaded + 1].definition
       IN  /\ ast' = [ast EXCEPT ![Module] = definition]
           /\ env_ref' = [env_ref EXCEPT ![Module] = "builtin_macros"]
           /\ stack' = [stack EXCEPT ![Module] = << Frame(definition, builtin_macros) >>]
    /\ ret' = [ret EXCEPT ![Module] = NoRet]
    /\ outcome' = [outcome EXCEPT ![Module] = Running]
    /\ last' = [last EXCEPT ![Module] = NoLast]
    /\ UNCHANGED <<builtin_macros, loaded, macros, asm_in, asm_out>>

\* add_builtin_macro after that call: the two assignments
add_builtin_macro_store ==
    /\ outcome[Module].status = "running"
    /\ stack[Module] = <<>>
    /\ LET long == builtin_definitions[loaded + 1].long
           short == builtin_definitions[loaded + 1].short
           d1 == Put(builtin_macros, long, ret[Module])
       IN  builtin_macros' = IF short # "" THEN Put(d1, short, ret[Module]) ELSE d1
    /\ loaded' = loaded + 1
    /\ outcome' = [outcome EXCEPT ![Module] = Returned(ret[Module])]
    /\ UNCHANGED <<ast, env_ref, macros, stack, ret, last, asm_in, asm_out>>

\* faulty variant: compile_ast called on builtin_macros itself, no copy made
compile_without_copy(t, a) ==
    /\ ModuleLoaded
    /\ outcome[t].status = "idle"
    /\ ast' = [ast EXCEPT ![t] = a]
    /\ env_ref' = [env_ref EXCEPT ![t] = "builtin_macros"]
    /\ stack' = [stack EXCEPT ![t] = << Frame(a, builtin_macros) >>]
    /\ ret' = [ret EXCEPT ![t] = NoRet]
    /\ outcome' = [outcome EXCEPT ![t] = Running]
    /\ last' = [last EXCEPT ![t] = NoLast]
    /\ UNCHANGED <<builtin_macros, loaded, macros, asm_in, asm_out>>

\* compile(ast) up to its call of compile_ast: macros = dict(builtin_macros)
compile(t, a) ==
    /\ ModuleLoaded
    /\ outcome[t].status = "idle"
    /\ ast' = [ast EXCEPT ![t] = a]
    /\ env_ref' = [env_ref EXCEPT ![t] = "macros"]
    /\ macros' = [macros EXCEPT ![t] = builtin_macros]
    /\ stack' = [stack EXCEPT ![t] = << Frame(a, builtin_macros) >>]
    /\ ret' = [ret EXCEPT ![t] = NoRet]
    /\ outcome' = [outcome EXCEPT ![t] = Running]
    /\ last' = [last EXCEPT ![t] = NoLast]
    /\ UNCHANGED <<builtin_macros, loaded, asm_in, asm_out>>

\* compile(ast) after that call: return asm.Setting('ms', ...)
compile_return(t) ==
    /\ t \in Callers
    /\ outcome[t].status = "running"
    /\ stack[t] = <<>>
    /\ outcome' = [outcome EXCEPT ![t] = Returned(asm_Setting(<<"m", "s">>, ret[t]))]
    /\ UNCHANGED <<builtin_macros, loaded, ast, env_ref, macros, stack, ret, last,
                   asm_in, asm_out>>

\* the caller has taken what compile returned or raised; the call's locals are
\* gone and the thread is free to call compile again
caller_resumes(t) ==
    /\ t \in Callers
    /\ outcome[t].status \in {"returned", "raised"}
    /\ ast' = [ast EXCEPT ![t] = NoAst]
    /\ macros' = [macros EXCEPT ![t] = EmptyDict]
    /\ ret' = [ret EXCEPT ![t] = NoRet]
    /\ outcome' = [outcome EXCEPT ![t] = Idle]
    /\ last' = [last EXCEPT ![t] = NoLast]
    /\ UNCHANGED <<builtin_macros, loaded, env_ref, stack, asm_in, asm_out>>

compile_concat(t) == At(t, "Concat") /\ Store(t, concat_step(Local(t)))

compile_either(t) == At(t, "Either") /\ Store(t, either_step(Local(t)))

def_error(t) == At(t, "Def") /\ Store(t, def_step(Local(t)))

compile_operator(t) == At(t, "Operator") /\ Store(t, operator_step(Local(t)))

compile_macro(t) == At(t, "Macro") /\ Store(t, macro_step(Local(t)))

compile_range(t) == At(t, "Range") /\ Store(t, range_step(Local(t)))

compile_literal(t) == At(t, "Literal") /\ Store(t, literal_step(Local(t)))

compile_nothing(t) == At(t, "Nothing") /\ Store(t, nothing_step(Local(t)))

\* one step of the compile_ast call a thread is in
compile_ast(t) ==
    \/ compile_concat(t)
    \/ compile_either(t)
    \/ def_error(t)
    \/ compile_operator(t)
    \/ compile_macro(t)
    \/ compile_range(t)
    \/ compile_literal(t)
    \/ compile_nothing(t)

\* the module body, then any number of compile calls, one at a time
Next ==
    \/ add_builtin_macro
    \/ add_builtin_macro_store
    \/ \E a \in ASTs : compile(1, a)
    \/ \E t \in {Module, 1} : compile_ast(t)
    \/ compile_return(1)
    \/ caller_resumes(1)

Spec == Init /\ [][Next]_vars

\* the module body, then compile calls from NumCallers threads, interleaved
NextConc ==
    \/ add_builtin_macro
    \/ add_builtin_macro_store
    \/ \E t \in Callers : \E a \in ConcurrentASTs : compile(t, a)
    \/ \E t \in Threads : compile_ast(t)
    \/ \E t \in Callers : compile_return(t)
    \/ \E t \in Callers : caller_resumes(t)

SpecConc == Init /\ [][NextConc]_vars

---------------------------------------------------------------------------
(* The assembler run on Multiple nodes *)

Counts == {None} \cup 0..MaxCount

\* the subexpressions of the Multiple nodes handed to assemble
MultipleSubs ==
    { asm_Literal(<<"a">>), asm_Literal(<<"a", "b">>), asm_Literal(<<>>),
      asm_Literal(<<".">>), asm_DIGIT, asm_ANY, asm_WORD_BOUNDARY,
      asm_CharacterClass(<< <<"a">>, <<"b">> >>, FALSE),
      asm_CharacterClass(<< <<"a">> >>, TRUE),
      asm_Concat(<< asm_Literal(<<"a">>), asm_Literal(<<"b">>) >>),
      asm_Concat(<< asm_Literal(<<"a">>) >>),
      asm_Concat(<< asm_Literal(<<"c">>),
                    asm_Either(<< asm_Literal(<<"a">>), asm_Literal(<<"b">>) >>) >>),
      asm_Either(<< asm_Literal(<<"a">>), asm_Literal(<<"b">>) >>),
      asm_Either(<< asm_Literal(<<"a">>) >>),
      asm_Multiple(2, 3, TRUE, asm_Literal(<<"a">>)),
      asm_Multiple(0, None, FALSE, asm_Literal(<<"a", "b">>)),
      asm_Capture(<<>>, asm_DIGIT),
      asm_Capture(<<"number">>, asm_Literal(<<"a", "b">>)),
      asm_Setting(<<"m">>, asm_Literal(<<"a", "b">>)),
      asm_Setting(<<"m">>, asm_Literal(<<"a">>)) }

\* the Multiple nodes handed to assemble
Multiples ==
    {asm_Multiple(min, max, is_greedy, sub) :
        min \in Counts, max \in Counts, is_greedy \in BOOLEAN, sub \in MultipleSubs}

\* one call assemble(ir)
assemble_multiple ==
    \E ir \in Multiples :
        /\ asm_in = NoRet
        /\ asm_in' = ir
        /\ asm_out' = assemble(ir)
        /\ UNCHANGED <<builtin_macros, loaded, ast, env_ref, macros, stack, ret,
                       outcome, last>>

NextAsm == assemble_multiple

SpecAsm == Init /\ [][NextAsm]_vars

---------------------------------------------------------------------------
(* Properties *)

Finished(t) == outcome[t].status \in {"returned", "raised"}

Succeeded(t) == outcome[t].status = "returned"

\* the IR compile_ast(a, env) returns when run by itself (given that it returns)
CompiledAlone(a, env) == compile_alone(a, env).value.sub

\* some Concat that is being compiled around the running handler holds a Def of name
InScopeOfDef(t, name) ==
    \E k \in DOMAIN stack[t] :
        /\ stack[t][k].node.type = "Concat"
        /\ \E i \in DOMAIN stack[t][k].node.items :
              /\ stack[t][k].node.items[i].type = "Def"
              /\ stack[t][k].node.items[i].name = name

\* C1: every compile_concat call that returns leaves the macro environment as it
\* found it, at any depth; so a Macro that stands outside every Concat holding a
\* Def of its name (and names no builtin) finds the name unbound, and the lookup
\* of an unbound name raises CompileError.
C1_ConcatRestoresEnvironment ==
    \A t \in Threads :
        /\ (last[t].fn = "compile_concat" /\ ~IsError(last[t].value))
              => last[t].after = last[t].before
        /\ (t \in Callers /\ At(t, "Macro"))
              => LET name == Top(Local(t)).node.name
                 IN  (name \notin DOMAIN builtin_macros /\ ~InScopeOfDef(t, name))
                        => name \notin DOMAIN Env(t)
        /\ (last[t].fn = "compile_macro" /\ last[t].node.name \notin DOMAIN last[t].before)
              => last[t].value = Error("CompileError")

\* C1 witness: a nested Concat with a Def has just returned, and the next item
\* of the enclosing Concat is a Macro reference to the name that Def bound.
C1_Witness ==
    /\ last[1].fn = "compile_concat"
    /\ ~IsError(last[1].value)
    /\ stack[1] # <<>>
    /\ At(1, "Concat")
    /\ LET f == Top(Local(1))
           rest == regexes_of(f.node.items)
       IN  /\ f.stage = "regexes"
           /\ f.i < Len(rest)
           /\ rest[f.i + 1].type = "Macro"
           /\ \E i \in DOMAIN last[1].node.items :
                 /\ last[1].node.items[i].type = "Def"
                 /\ last[1].node.items[i].name = rest[f.i + 1].name
                 /\ rest[f.i + 1].name \notin DOMAIN macros[1]

\* the Def the Def loop of the Concat on top of t's stack examines next, as
\* <<Def, names bound when it is examined>>; <<>> when the loop is over
NextDef(t) ==
    LET f == Top(Local(t))
        defs == defs_of(f.node.items)
    IN  IF f.stage = "call" /\ defs # <<>>
        THEN << defs[1], DOMAIN Env(t) >>
        ELSE IF f.stage = "defs" /\ f.i < Len(defs)
        THEN << defs[f.i + 1], DOMAIN Env(t) \cup {defs[f.i].name} >>
        ELSE <<>>

\* C2: a Def whose name is bound when the Def loop reaches it (by a builtin, by
\* a Def of an enclosing Concat, or by an earlier Def of the same Concat) makes
\* the compile fail, and no step of a call changes the IR an already bound name
\* maps to.
C2_NoRedefinition ==
    [][\A t \in Threads :
          (stack[t] # <<>> /\ stack'[t] # stack[t]) =>
              /\ (At(t, "Concat") /\ NextDef(t) # <<>> /\ NextDef(t)[1].name \in NextDef(t)[2])
                    => outcome'[t].status = "raised"
              /\ \A n \in DOMAIN Env(t) \cap DOMAIN Env(t)' : Env(t)'[n] = Env(t)[n]
      ]_vars

\* C2 witness: a Concat nested in another raised because one of its Defs names
\* a macro that a Def of the enclosing Concat had bound.
C2_Witness ==
    /\ last[1].fn = "compile_concat"
    /\ last[1].value = Error("KeyError")
    /\ last[1].node # ast[1]
    /\ \E i \in DOMAIN last[1].node.items :
          /\ last[1].node.items[i].type = "Def"
          /\ last[1].node.items[i].name \in DOMAIN last[1].before
          /\ last[1].node.items[i].name \notin DOMAIN builtin_macros

IsOneCharacterLiteral(c) == c.type = "asm.Literal" /\ Len(c.string) = 1

\* the characters of the branches: a literal's character, a class's items
BranchCharacters(compiled) ==
    UNION {IF IsOneCharacterLiteral(compiled[i]) THEN {compiled[i].string}
           ELSE IF compiled[i].type = "asm.CharacterClass"
           THEN Elements(compiled[i].characters)
           ELSE {} : i \in DOMAIN compiled}

\* C3: compile_either returns a CharacterClass exactly when every compiled
\* branch is a one-character Literal or a CharacterClass; the class is then not
\* inverted and holds exactly the branches' characters; otherwise the result is
\* Either of the compiled branches, each the IR of its item, in the item order.
C3_EitherFolding ==
    \A t \in Threads :
        last[t].fn = "compile_either" =>
            LET compiled == last[t].compiled
                result == last[t].value
                foldable == \A i \in DOMAIN compiled :
                                \/ IsOneCharacterLiteral(compiled[i])
                                \/ compiled[i].type = "asm.CharacterClass"
            IN  /\ Len(compiled) = Len(last[t].node.items)
                /\ \A i \in DOMAIN compiled :
                      compiled[i] = CompiledAlone(last[t].node.items[i], last[t].before)
                /\ (result.type = "asm.CharacterClass") <=> foldable
                /\ foldable =>
                      /\ result.inverted = FALSE
                      /\ Elements(result.characters) = BranchCharacters(compiled)
                /\ ~foldable => result = asm_Either(compiled)

\* C3 witness: an Either of a one-character literal and a character class has
\* been folded into one class.
C3_Witness ==
    /\ last[1].fn = "compile_either"
    /\ Len(last[1].compiled) = 2
    /\ IsOneCharacterLiteral(last[1].compiled[1])
    /\ last[1].compiled[2].type = "asm.CharacterClass"
    /\ last[1].value.type = "asm.CharacterClass"

AllDigits(s) == s # <<>> /\ \A i \in DOMAIN s : isdigit(s[i])

\* name is "<n>-<m>", the whole of it
IsBoundedRepeat(name) ==
    \E k \in DOMAIN name :
        /\ name[k] = "-"
        /\ AllDigits(SubSeq(name, 1, k - 1))
        /\ AllDigits(SubSeq(name, k + 1, Len(name)))

BoundedRepeatMin(name) ==
    int(SubSeq(name, 1, (CHOOSE k \in DOMAIN name : name[k] = "-") - 1))

BoundedRepeatMax(name) ==
    int(SubSeq(name, (CHOOSE k \in DOMAIN name : name[k] = "-") + 1, Len(name)))

\* name is "<n>+", the whole of it
IsUnboundedRepeat(name) ==
    /\ Len(name) >= 2
    /\ name[Len(name)] = "+"
    /\ AllDigits(SubSeq(name, 1, Len(name) - 1))

\* C4: compile_operator returns Multiple(n, m, True, sub) for the name "<n>-<m>",
\* Multiple(n, None, True, sub) for "<n>+", Capture(None, sub) for "capture",
\* the inversion of sub for "not", and raises CompileError for every other name.
C4_OperatorTable ==
    \A t \in Threads :
        last[t].fn = "compile_operator" =>
            LET name == last[t].node.name
                sub == last[t].compiled[1]
                result == last[t].value
            IN  IF IsBoundedRepeat(name)
                THEN result = asm_Multiple(BoundedRepeatMin(name), BoundedRepeatMax(name),
                                           TRUE, sub)
                ELSE IF IsUnboundedRepeat(name)
                THEN result = asm_Multiple(int(SubSeq(name, 1, Len(name) - 1)), None,
                                           TRUE, sub)
                ELSE IF name = CAPTURE THEN result = asm_Capture(<<>>, sub)
                ELSE IF name = NOT THEN result = invert_operator(sub)
                ELSE result = Error("CompileError")

\* C5: a compile that does not return an IR raises CompileError, whatever the
\* cause.
C5_SingleErrorKind ==
    \A t \in Callers :
        outcome[t].status = "raised" => outcome[t].value = Error("CompileError")

\* C6: once the module body has run, no step changes builtin_macros, which holds
\* no '#exponent'; and every finished compile call, whatever the other threads
\* did meanwhile, ended as the same call does when run by itself.
C6_CallsAreIsolated ==
    /\ [][ModuleLoaded => builtin_macros' = builtin_macros]_vars
    /\ [](ModuleLoaded =>
            /\ "#exponent" \notin DOMAIN builtin_macros
            /\ \A t \in Callers :
                  Finished(t) => outcome[t] = compile_alone(ast[t], builtin_macros))

\* C6 witness: one call has failed after binding '#x' in its environment while
\* another thread's call is about to look '#x' up, and the table holds '#float'.
C6_Witness ==
    /\ ModuleLoaded
    /\ "#float" \in DOMAIN builtin_macros
    /\ outcome[1].status = "raised"
    /\ "#x" \in DOMAIN macros[1]
    /\ At(2, "Macro")
    /\ stack[2][Len(stack[2])].node.name = "#x"
    /\ "#x" \notin DOMAIN macros[2]

\* the quantifier for (min, max), a missing min read as 0
QuantifierText(min, max) ==
    LET n == IF min = None THEN 0 ELSE min
    IN  CASE n = 0 /\ max = 1 -> "?"
          [] n = 0 /\ max = None -> "*"
          [] n = 1 /\ max = None -> "+"
          [] max # None /\ n = max /\ ~(n = 0 /\ max = 1) -> "{" \o ToString(n) \o "}"
          [] n = 0 /\ max # None /\ max # 1 /\ max # 0 -> "{," \o ToString(max) \o "}"
          [] n > 1 /\ max = None -> "{" \o ToString(n) \o ",}"
          [] OTHER -> "{" \o ToString(n) \o "," \o ToString(max) \o "}"

\* a single char, a character class, or an already grouped or capturing construct
SingleUnit(sub) ==
    \/ sub.type = "asm.Literal" /\ Len(sub.string) = 1
    \/ sub.type \in {"asm.CharacterClass", "asm.Capture", "asm.Any", "asm.Boundary"}

\* sub rendered, in a non-capturing group when it needs one
Grouped(sub) ==
    IF Len(assemble(sub)) > 1 /\ ~SingleUnit(sub)
    THEN "(?:" \o assemble(sub) \o ")"
    ELSE assemble(sub)

\* as Grouped, the flag marker of a Setting standing before the group
RECURSIVE GroupedAfterFlags(_)
GroupedAfterFlags(sub) ==
    IF sub.type = "asm.Setting"
    THEN "(?" \o sub.setting[1] \o ")" \o GroupedAfterFlags(sub.sub)
    ELSE Grouped(sub)

LazyMark(is_greedy) == IF is_greedy THEN "" ELSE "?"

\* C7 as stated: assemble renders a Multiple as its sub, grouped when it renders
\* to more than one character and is no single unit, then the quantifier, then
\* "?" when not greedy.
C7_MultipleRendering ==
    asm_in # NoRet =>
        asm_out = Grouped(asm_in.sub) \o QuantifierText(asm_in.min, asm_in.max)
                    \o LazyMark(asm_in.is_greedy)

\* C7 amended: the same, except that for a sub that is a Setting the flag marker
\* comes first and the grouping rule applies to the Setting's own subexpression.
C7_MultipleRenderingAfterFlags ==
    asm_in # NoRet =>
        asm_out = GroupedAfterFlags(asm_in.sub) \o QuantifierText(asm_in.min, asm_in.max)
                    \o LazyMark(asm_in.is_greedy)

\* C7 witness: a lazy Multiple with no min over a Setting of a two-character
\* literal has been assembled.
C7_Witness ==
    /\ asm_in # NoRet
    /\ asm_in.sub = asm_Setting(<<"m">>, asm_Literal(<<"a", "b">>))
    /\ asm_in.min = None
    /\ asm_in.max = 2
    /\ ~asm_in.is_greedy
    /\ asm_out = "(?m)(?:ab){,2}?"

\* the environment a Concat's non-Def items are to be compiled under: env with
\* each Def bound, in turn, to the IR of its subregex
RECURSIVE ExtendedBy(_, _)
ExtendedBy(env, defs) ==
    IF defs = <<>> THEN env
    ELSE ExtendedBy(Put(env, Head(defs).name, CompiledAlone(Head(defs).subregex, env)),
                    Tail(defs))

\* C8: while a Concat compiles its non-Def items, and whatever is nested in
\* them, every Def of that Concat is bound to its IR, wherever the Def stands in
\* the item list; and the compiled list holds the IR of the non-Def items in
\* their original order.
C8_DefsBeforeItems ==
    \A t \in Threads :
        /\ \A k \in DOMAIN stack[t] :
              (stack[t][k].node.type = "Concat" /\ stack[t][k].stage = "regexes") =>
                  \A i \in DOMAIN stack[t][k].node.items :
                      LET d == stack[t][k].node.items[i]
                      IN  d.type = "Def" =>
                            /\ d.name \in DOMAIN Env(t)
                            /\ Env(t)[d.name] =
                                 ExtendedBy(stack[t][k].saved,
                                            defs_of(stack[t][k].node.items))[d.name]
        /\ (last[t].fn = "compile_concat" /\ ~IsError(last[t].value)) =>
              LET items == last[t].node.items
                  rest == SelectSeq(items, IsNotDef)
              IN  /\ Len(last[t].compiled) = Len(rest)
                  /\ \A j \in DOMAIN rest :
                        last[t].compiled[j] =
                            CompiledAlone(rest[j],
                                          ExtendedBy(last[t].before, SelectSeq(items, IsDef)))

\* C8 witness: a Macro reference standing before its Def in the same Concat has
\* just resolved to the Def's IR.
C8_Witness ==
    /\ last[1].fn = "compile_macro"
    /\ last[1].value = asm_Literal(<<"a">>)
    /\ At(1, "Concat")
    /\ LET f == Top(Local(1))
       IN  /\ f.stage = "regexes"
           /\ Len(f.node.items) = 2
           /\ f.node.items[1] = last[1].node
           /\ f.node.items[2] = Def(last[1].node.name, Literal(<<"a">>))

\* the characters the matching of classes is tried on
Alphabet == {"a", "b", "c", "d", "A", "0", "5", "-", "_"}

\* whether one item of a character class matches ch
ItemMatches(item, ch) ==
    IF Len(item) = 2 THEN ord(item[1]) <= ord(ch) /\ ord(ch) <= ord(item[2])
    ELSE CASE item[1] = "\\d" -> isdigit(ch)
           [] item[1] = "\\w" -> alphanumeric(ch) \/ ch = "_"
           [] item[1] \in {"\\s", "\\n", "\\r", "\\t"} -> FALSE
           [] OTHER -> item[1] = ch

\* whether a one-character literal or a character class matches ch
Matches(c, ch) ==
    IF c.type = "asm.Literal" THEN c.string = << ch >>
    ELSE (\E i \in DOMAIN c.characters : ItemMatches(c.characters[i], ch)) # c.inverted

\* C9: a class folded by compile_either matches a character exactly when one of
\* the compiled branches does.
C9_FoldedClassMatchesBranches ==
    \A t \in Threads :
        (last[t].fn = "compile_either" /\ last[t].value.type = "asm.CharacterClass") =>
            \A ch \in Alphabet :
                Matches(last[t].value, ch)
                    <=> \E i \in DOMAIN last[t].compiled : Matches(last[t].compiled[i], ch)

\* every Multiple in ir has 0 <= min, and min <= max when max is bounded
RECURSIVE WellFormed(_)
WellFormed(ir) ==
    CASE ir.type = "asm.Multiple" ->
            /\ ir.min >= 0
            /\ ir.max # None => ir.min <= ir.max
            /\ WellFormed(ir.sub)
      [] ir.type \in {"asm.Capture", "asm.Setting"} -> WellFormed(ir.sub)
      [] ir.type \in {"asm.Concat", "asm.Either"} ->
            \A i \in DOMAIN ir.items : WellFormed(ir.items[i])
      [] OTHER -> TRUE

\* C10: every Multiple in the IR of a successful compile is well formed; an
\* Operator "<n>-<m>" with n > m yields no IR.
C10_MultiplesWellFormed ==
    \A t \in Callers : Succeeded(t) => WellFormed(outcome[t].value)

====
